---- MODULE Spec2Model ----
(***************************************************************************)
(* Model of the ingestion-and-aggregation pipeline of aurovas:             *)
(*   parser/transform.py       the pipeline app.py imports                 *)
(*   parser/transform_data.py  the commission calculator and its pipeline  *)
(* Text is a sequence of one-character strings, so that trimming, case     *)
(* folding, character filtering and number/date parsing are computed.      *)
(* A cell of a raw table is a record [k, s]: k = "str" with text s,        *)
(* k = "none" (Python None: the child element has no text), k = "nan"      *)
(* (the child is absent from this element: pandas fills NaN), k = "NA"     *)
(* (pd.NA, produced by _sanitize_str).                                     *)
(* Numbers are exact decimals [k |-> "num", n, d] (value n/d, d a power of *)
(* ten, normalised), or the floats nan and inf ([k |-> "fnan"], "finf").   *)
(***************************************************************************)
EXTENDS Integers, Sequences, FiniteSets, TLC

\* ------------------------------------------------------------------ bounds
\* longest generated text of the numeric-parsing specification
MaxLen == 3
\* most records one ingestion extracts, over the three domain files
MaxRows == 2

\* ------------------------------------------------------------------ cells
Txt(s) == [k |-> "str", s |-> s]
PyNone == [k |-> "none", s |-> <<>>]
NaN == [k |-> "nan", s |-> <<>>]
NA == [k |-> "NA", s |-> <<>>]

IsNull(v) == v.k \in {"none", "nan", "NA"}

\* ------------------------------------------------------------------ numbers
RECURSIVE Pow10(_)
Pow10(k) == IF k = 0 THEN 1 ELSE 10 * Pow10(k - 1)

RECURSIVE Norm(_, _)
Norm(n, d) ==
    IF n = 0 THEN [k |-> "num", n |-> 0, d |-> 1]
    ELSE IF d > 1 /\ n % 10 = 0 THEN Norm(n \div 10, d \div 10)
    ELSE [k |-> "num", n |-> n, d |-> d]

Num(n) == Norm(n, 1)
FNaN == [k |-> "fnan", n |-> 0, d |-> 1]
FInf == [k |-> "finf", n |-> 1, d |-> 1]
FNegInf == [k |-> "finf", n |-> -1, d |-> 1]

IsNum(x) == x.k = "num"

Max(a, b) == IF a >= b THEN a ELSE b

\* float addition: nan is absorbing, inf + (-inf) = nan
Add(x, y) ==
    IF x.k = "fnan" \/ y.k = "fnan" THEN FNaN
    ELSE IF x.k = "finf" /\ y.k = "finf" THEN (IF x.n = y.n THEN x ELSE FNaN)
    ELSE IF x.k = "finf" THEN x
    ELSE IF y.k = "finf" THEN y
    ELSE LET d == Max(x.d, y.d)
         IN  Norm(x.n * (d \div x.d) + y.n * (d \div y.d), d)

\* float  x * y / 100.0
MulDiv100(x, y) ==
    IF x.k = "fnan" \/ y.k = "fnan" THEN FNaN
    ELSE IF x.k = "finf" \/ y.k = "finf"
         THEN (IF x.n = 0 \/ y.n = 0 THEN FNaN
               ELSE IF (x.n > 0) = (y.n > 0) THEN FInf ELSE FNegInf)
    ELSE Norm(x.n * y.n, x.d * y.d * 100)

\* ------------------------------------------------------------------ text
Digits == {"0", "1", "2", "3", "4", "5", "6", "7", "8", "9"}

DigitVal(c) ==
    CASE c = "0" -> 0 [] c = "1" -> 1 [] c = "2" -> 2 [] c = "3" -> 3
      [] c = "4" -> 4 [] c = "5" -> 5 [] c = "6" -> 6 [] c = "7" -> 7
      [] c = "8" -> 8 [] c = "9" -> 9

RECURSIVE DigitsVal(_)
DigitsVal(s) ==
    IF s = <<>> THEN 0
    ELSE DigitsVal(SubSeq(s, 1, Len(s) - 1)) * 10 + DigitVal(s[Len(s)])

AllIn(s, set) == \A i \in 1..Len(s) : s[i] \in set

Count(s, c) == Cardinality({i \in 1..Len(s) : s[i] = c})

\* index of the first c in s, Len(s) + 1 when there is none
FirstIdx(s, c) ==
    IF \E i \in 1..Len(s) : s[i] = c
    THEN CHOOSE i \in 1..Len(s) : s[i] = c /\ \A j \in 1..(i - 1) : s[j] # c
    ELSE Len(s) + 1

\* str.strip(): whitespace off both ends
Whitespace == {" "}

RECURSIVE LStrip(_)
LStrip(s) == IF s # <<>> /\ Head(s) \in Whitespace THEN LStrip(Tail(s)) ELSE s

RECURSIVE RStrip(_)
RStrip(s) ==
    IF s # <<>> /\ s[Len(s)] \in Whitespace
    THEN RStrip(SubSeq(s, 1, Len(s) - 1)) ELSE s

Strip(s) == RStrip(LStrip(s))

\* str.lower() on the letters A-Z
Uppers ==
    <<"A", "B", "C", "D", "E", "F", "G", "H", "I", "J", "K", "L", "M",
      "N", "O", "P", "Q", "R", "S", "T", "U", "V", "W", "X", "Y", "Z">>

Lowers ==
    <<"a", "b", "c", "d", "e", "f", "g", "h", "i", "j", "k", "l", "m",
      "n", "o", "p", "q", "r", "s", "t", "u", "v", "w", "x", "y", "z">>

LowerChar(c) ==
    IF \E i \in 1..26 : Uppers[i] = c
    THEN Lowers[CHOOSE i \in 1..26 : Uppers[i] = c]
    ELSE c

Lower(s) == [i \in 1..Len(s) |-> LowerChar(s[i])]

\* the characters of s that are in set, in order (re.sub of the complement)
RECURSIVE Keep(_, _)
Keep(s, set) ==
    IF s = <<>> THEN <<>>
    ELSE IF Head(s) \in set THEN <<Head(s)>> \o Keep(Tail(s), set)
    ELSE Keep(Tail(s), set)

\* str.replace(a, b) for single characters
ReplaceChar(s, a, b) == [i \in 1..Len(s) |-> IF s[i] = a THEN b ELSE s[i]]

\* str(x) of a cell: None -> "None", NaN -> "nan"
PyStr(v) ==
    CASE v.k = "str" -> v.s
      [] v.k = "none" -> <<"N", "o", "n", "e">>
      [] v.k = "nan" -> <<"n", "a", "n">>
      [] v.k = "NA" -> <<"<", "N", "A", ">">>

\* an unsigned decimal literal: digits with at most one point, one digit at least
DecimalValue(body, sign) ==
    LET p == FirstIdx(body, ".")
        ip == SubSeq(body, 1, p - 1)
        fp == SubSeq(body, p + 1, Len(body))
    IN  Norm(sign * (DigitsVal(ip) * Pow10(Len(fp)) + DigitsVal(fp)), Pow10(Len(fp)))

IsDecimal(body) ==
    /\ AllIn(body, Digits \cup {"."})
    /\ Count(body, ".") <= 1
    /\ Count(body, ".") < Len(body)

\* pd.to_numeric(errors="coerce") of one text over digits, '.', '-'
ToNumeric(s) ==
    LET neg == s # <<>> /\ Head(s) = "-"
        body == IF neg THEN Tail(s) ELSE s
    IN  IF IsDecimal(body) THEN DecimalValue(body, IF neg THEN -1 ELSE 1) ELSE FNaN

\* ------------------------------------------------------------------ transform.py helpers
\* _sanitize_str, one element of the series
_sanitize_str(v) ==
    LET t == Strip(PyStr(v))
    IN  IF t \in {<<>>, <<"N", "o", "n", "e">>, <<"N", "a", "N">>} THEN NA ELSE Txt(t)

\* transform._to_num, one element of the series
_to_num(v) ==
    LET s0 == _sanitize_str(v)
    IN  IF s0.k = "NA" THEN Num(0)
        ELSE LET s1 == Keep(s0.s, Digits \cup {",", ".", "-"})
                 s2 == Keep(s1, Digits \cup {",", "-"})
                 s3 == ReplaceChar(s2, ",", ".")
                 x == ToNumeric(s3)
             IN  IF x.k = "fnan" THEN Num(0) ELSE x

\* ------------------------------------------------------------------ dates
NaT == [k |-> "NaT", y |-> 0, m |-> 0, d |-> 0]
Date(y, m, d) == [k |-> "date", y |-> y, m |-> m, d |-> d]

IsLeap(y) == (y % 4 = 0 /\ y % 100 # 0) \/ y % 400 = 0

DaysIn(m, y) ==
    IF m = 2 THEN (IF IsLeap(y) THEN 29 ELSE 28)
    ELSE IF m \in {4, 6, 9, 11} THEN 30 ELSE 31

\* pd.to_datetime(errors="coerce", dayfirst=True) of one text written as
\* day/month/year with '/' separators; any other text of the model's inputs
\* is no date and coerces to NaT
ParseDate(s, dayfirst) ==
    LET p1 == FirstIdx(s, "/")
        rest == SubSeq(s, p1 + 1, Len(s))
        p2 == FirstIdx(rest, "/")
        a == SubSeq(s, 1, p1 - 1)
        b == SubSeq(rest, 1, p2 - 1)
        c == SubSeq(rest, p2 + 1, Len(rest))
        wellformed == /\ Count(s, "/") = 2
                      /\ AllIn(a, Digits) /\ Len(a) \in {1, 2}
                      /\ AllIn(b, Digits) /\ Len(b) \in {1, 2}
                      /\ AllIn(c, Digits) /\ Len(c) = 4
        dd == IF dayfirst THEN DigitsVal(a) ELSE DigitsVal(b)
        mm == IF dayfirst THEN DigitsVal(b) ELSE DigitsVal(a)
        yy == DigitsVal(c)
    IN  IF wellformed /\ mm \in 1..12 /\ dd >= 1 /\ dd <= DaysIn(mm, yy)
        THEN Date(yy, mm, dd) ELSE NaT

\* _to_datetime, one element of an already sanitised series
_to_datetime(v) == IF v.k = "str" THEN ParseDate(v.s, TRUE) ELSE NaT

\* ------------------------------------------------------------------ ordering of text
\* Python compares str by code point; the characters of the model in that order
CharOrder ==
    <<" ", "%", "(", ")", "+", ",", "-", ".", "/",
      "0", "1", "2", "3", "4", "5", "6", "7", "8", "9", "<", ">",
      "A", "B", "D", "F", "I", "J", "N", "P", "S", "V", "_",
      "a", "b", "c", "d", "e", "f", "g", "i", "j", "l", "m", "n", "o", "p",
      "r", "s", "t", "u", "v", "x", "y", "€">>

Ord(c) == CHOOSE i \in 1..Len(CharOrder) : CharOrder[i] = c

Min(a, b) == IF a <= b THEN a ELSE b

TextLess(a, b) ==
    \E i \in 1..(Min(Len(a), Len(b)) + 1) :
        /\ \A j \in 1..(i - 1) : a[j] = b[j]
        /\ \/ i > Len(a) /\ i <= Len(b)
           \/ i <= Len(a) /\ i <= Len(b) /\ Ord(a[i]) < Ord(b[i])

\* a grouping key is <<year, month, text, ...>>
RECURSIVE TextsLess(_, _)
TextsLess(a, b) ==
    /\ a # <<>>
    /\ \/ TextLess(Head(a), Head(b))
       \/ Head(a) = Head(b) /\ TextsLess(Tail(a), Tail(b))

KeyLess(a, b) ==
    \/ a[1] < b[1]
    \/ a[1] = b[1] /\ a[2] < b[2]
    \/ a[1] = b[1] /\ a[2] = b[2]
         /\ TextsLess(SubSeq(a, 3, Len(a)), SubSeq(b, 3, Len(b)))

\* (the keys in descending order, as sort_values(ascending=False) would give)
RECURSIVE SortKeys_desc(_)
SortKeys_desc(S) ==
    IF S = {} THEN <<>>
    ELSE LET m == CHOOSE x \in S : \A y \in S \ {x} : KeyLess(y, x)
         IN  <<m>> \o SortKeys_desc(S \ {m})

\* sort_values over the keys of a groupby: ascending, each key once
RECURSIVE SortKeys(_)
SortKeys(S) ==
    IF S = {} THEN <<>>
    ELSE LET m == CHOOSE x \in S : \A y \in S \ {x} : KeyLess(x, y)
         IN  <<m>> \o SortKeys(S \ {m})

Range(f) == {f[i] : i \in DOMAIN f}

\* the elements of a set of integers, ascending
RECURSIVE SortKeysInt(_)
SortKeysInt(S) ==
    IF S = {} THEN <<>>
    ELSE LET m == CHOOSE x \in S : \A y \in S : x <= y
         IN  <<m>> \o SortKeysInt(S \ {m})

\* ------------------------------------------------------------------ raw tables
\* A raw table is None (present = FALSE) or the DataFrame built from the rows
\* _iterparse_to_df collected: rows[i] maps the child tags of element i to
\* their cells. A column exists when some row has the tag; a row without the
\* tag holds NaN in that column.
NoTable == [present |-> FALSE, rows |-> <<>>]

Columns(df) == UNION {DOMAIN df.rows[i] : i \in 1..Len(df.rows)}

Cell(row, col) == IF col \in DOMAIN row THEN row[col] ELSE NaN

Idx(rows) == 1..Len(rows)

HasDate(r) == r.fecha.k = "date"

\* fillna(default) of a sanitised cell, as text
FillNa(v, default) == IF v.k = "NA" THEN default ELSE v.s

Desconocido == <<"D", "e", "s", "c", "o", "n", "o", "c", "i", "d", "o">>
SinEspecificar ==
    <<"S", "i", "n", " ", "e", "s", "p", "e", "c", "i", "f", "i", "c", "a", "r">>

\* ------------------------------------------------------------------ transform.py cleaning
\* _add_year_month
_add_year_month(r) == [anio |-> r.fecha.y, mes |-> r.fecha.m] @@ r

\* (no row dropped)
DropNaFecha_keep(rows) == rows

\* df.dropna(subset=["fecha"])
DropNaFecha(rows) == SelectSeq(rows, HasDate)

clean_inmuebles(df_inm) ==
    IF ~df_inm.present
    THEN [columns |-> <<"fecha", "agente", "tipo", "precio", "precio_total", "anio", "mes">>,
          rows |-> <<>>]
    ELSE LET df == [i \in Idx(df_inm.rows) |->
                      LET raw == df_inm.rows[i]
                      IN  [idx |-> i,
                           fecha |-> _to_datetime(_sanitize_str(Cell(raw, "fechaing"))),
                           agente |-> FillNa(_sanitize_str(Cell(raw, "agente_captador")), Desconocido),
                           tipo |-> FillNa(_sanitize_str(Cell(raw, "tipo_operacion")), SinEspecificar),
                           precio |-> _to_num(Cell(raw, "precio")),
                           precio_total |-> _to_num(Cell(raw, "precio_total"))]]
             kept == DropNaFecha(df)
         IN  [columns |-> <<"fecha", "agente", "tipo", "precio", "precio_total", "anio", "mes">>,
              rows |-> [i \in Idx(kept) |-> _add_year_month(kept[i])]]

clean_demandas(df_dem) ==
    IF ~df_dem.present
    THEN [columns |-> <<"fecha", "agente", "tipo", "anio", "mes">>, rows |-> <<>>]
    ELSE LET df == [i \in Idx(df_dem.rows) |->
                      LET raw == df_dem.rows[i]
                      IN  [idx |-> i,
                           fecha |-> _to_datetime(_sanitize_str(Cell(raw, "fec_alta"))),
                           agente |-> FillNa(_sanitize_str(Cell(raw, "captador")), Desconocido),
                           tipo |-> FillNa(_sanitize_str(Cell(raw, "tipo_operacion")), SinEspecificar)]]
             kept == DropNaFecha(df)
         IN  [columns |-> <<"fecha", "agente", "tipo", "anio", "mes">>,
              rows |-> [i \in Idx(kept) |-> _add_year_month(kept[i])]]

clean_operaciones(df_op) ==
    IF ~df_op.present
    THEN [columns |-> <<"fecha", "agente", "tipo", "com_prop", "com_dem", "com_cli",
                        "comision_total", "anio", "mes">>,
          rows |-> <<>>]
    ELSE LET df == [i \in Idx(df_op.rows) |->
                      LET raw == df_op.rows[i]
                          com_prop == _to_num(Cell(raw, "valorCom_propietario"))
                          com_dem == _to_num(Cell(raw, "valorCom_demandante"))
                          com_cli == _to_num(Cell(raw, "valorCom_cliente"))
                      IN  [idx |-> i,
                           fecha |-> _to_datetime(_sanitize_str(Cell(raw, "fecha"))),
                           agente |-> FillNa(_sanitize_str(Cell(raw, "vendedor")), Desconocido),
                           tipo |-> FillNa(_sanitize_str(Cell(raw, "tipo")), SinEspecificar),
                           com_prop |-> com_prop,
                           com_dem |-> com_dem,
                           com_cli |-> com_cli,
                           comision_total |-> Add(Add(com_prop, com_dem), com_cli)]]
             kept == DropNaFecha(df)
         IN  [columns |-> <<"fecha", "agente", "tipo", "com_prop", "com_dem", "com_cli",
                            "comision_total", "anio", "mes">>,
              rows |-> [i \in Idx(kept) |-> _add_year_month(kept[i])]]

\* ------------------------------------------------------------------ transform.py summaries
Key4(r) == <<r.anio, r.mes, r.agente, r.tipo>>
Key3(r) == <<r.anio, r.mes, r.agente>>

\* (one per group, as nunique of the key would give)
GroupSize_one(rows, key) == 1

\* groupby(...).size(): the number of rows of each group
GroupSize(rows, key) == Cardinality({i \in Idx(rows) : Key4(rows[i]) = key})

\* groupby(...)[col].sum(): NaN is skipped, an empty sum is 0.0
RECURSIVE SumSkipNaN(_)
SumSkipNaN(vals) ==
    IF vals = <<>> THEN Num(0)
    ELSE IF Head(vals).k = "fnan" THEN SumSkipNaN(Tail(vals))
    ELSE Add(Head(vals), SumSkipNaN(Tail(vals)))

InGroup3(rows, key) == SelectSeq(rows, LAMBDA r : Key3(r) = key)

GroupSum(rows, key) ==
    LET g == InGroup3(rows, key)
    IN  SumSkipNaN([i \in Idx(g) |-> g[i].comision_total])

resumen_captaciones(df_inm_limpio) ==
    IF df_inm_limpio.rows = <<>>
    THEN [columns |-> <<"anio", "mes", "agente", "tipo", "num_inmuebles">>, rows |-> <<>>]
    ELSE LET rows == df_inm_limpio.rows
             keys == SortKeys({Key4(rows[i]) : i \in Idx(rows)})
         IN  [columns |-> <<"anio", "mes", "agente", "tipo">> \o <<"num_inmuebles">>,
              rows |-> [g \in Idx(keys) |->
                          [anio |-> keys[g][1], mes |-> keys[g][2],
                           agente |-> keys[g][3], tipo |-> keys[g][4],
                           num_inmuebles |-> GroupSize(rows, keys[g])]]]

resumen_demandas(df_dem_limpio) ==
    IF df_dem_limpio.rows = <<>>
    THEN [columns |-> <<"anio", "mes", "agente", "tipo", "num_demandas">>, rows |-> <<>>]
    ELSE LET rows == df_dem_limpio.rows
             keys == SortKeys({Key4(rows[i]) : i \in Idx(rows)})
         IN  [columns |-> <<"anio", "mes", "agente", "tipo">> \o <<"num_demandas">>,
              rows |-> [g \in Idx(keys) |->
                          [anio |-> keys[g][1], mes |-> keys[g][2],
                           agente |-> keys[g][3], tipo |-> keys[g][4],
                           num_demandas |-> GroupSize(rows, keys[g])]]]

resumen_comisiones(df_op_limpio) ==
    IF df_op_limpio.rows = <<>>
    THEN [columns |-> <<"anio", "mes", "agente", "comision_total">>, rows |-> <<>>]
    ELSE LET rows == df_op_limpio.rows
             keys == SortKeys({Key3(rows[i]) : i \in Idx(rows)})
         IN  [columns |-> <<"anio", "mes", "agente">> \o <<"comision_total">>,
              rows |-> [g \in Idx(keys) |->
                          [anio |-> keys[g][1], mes |-> keys[g][2],
                           agente |-> keys[g][3],
                           comision_total |-> GroupSum(rows, keys[g])]]]

\* (a bundle that leaves out the tables of an absent transaction table)
build_all_resumenes_skip(df_inm_raw, df_dem_raw, df_op_raw) ==
    [n \in {"captaciones", "demandas", "inmuebles_limpio", "demandas_limpio"}
            \cup (IF df_op_raw.present THEN {"comisiones", "operaciones_limpio"} ELSE {}) |->
        CASE n = "captaciones" -> resumen_captaciones(clean_inmuebles(df_inm_raw))
          [] n = "demandas" -> resumen_demandas(clean_demandas(df_dem_raw))
          [] n = "comisiones" -> resumen_comisiones(clean_operaciones(df_op_raw))
          [] n = "inmuebles_limpio" -> clean_inmuebles(df_inm_raw)
          [] n = "demandas_limpio" -> clean_demandas(df_dem_raw)
          [] n = "operaciones_limpio" -> clean_operaciones(df_op_raw)]

\* transform.build_all_resumenes: the bundle app.py publishes
build_all_resumenes(df_inm_raw, df_dem_raw, df_op_raw) ==
    LET df_inm == clean_inmuebles(df_inm_raw)
        df_dem == clean_demandas(df_dem_raw)
        df_op == clean_operaciones(df_op_raw)
    IN  [captaciones |-> resumen_captaciones(df_inm),
         demandas |-> resumen_demandas(df_dem),
         comisiones |-> resumen_comisiones(df_op),
         inmuebles_limpio |-> df_inm,
         demandas_limpio |-> df_dem,
         operaciones_limpio |-> df_op]

\* ------------------------------------------------------------------ transform_data.py
\* Python float(text): surrounding whitespace, a sign, a decimal literal, or
\* nan / inf / infinity in any case; anything else raises ValueError ("err").
\* (Exponents and digit-group underscores are not written by the model's inputs.)
FloatErr == [k |-> "err", n |-> 0, d |-> 1]

PyFloatBody(body, sign) ==
    IF body = <<"n", "a", "n">> THEN FNaN
    ELSE IF body \in {<<"i", "n", "f">>, <<"i", "n", "f", "i", "n", "i", "t", "y">>}
         THEN (IF sign = 1 THEN FInf ELSE FNegInf)
    ELSE IF IsDecimal(body) THEN DecimalValue(body, sign)
    ELSE FloatErr

PyFloatSigned(u) ==
    IF u # <<>> /\ Head(u) \in {"+", "-"}
    THEN PyFloatBody(Tail(u), IF Head(u) = "-" THEN -1 ELSE 1)
    ELSE PyFloatBody(u, 1)

PyFloat(t) == PyFloatSigned(Lower(Strip(t)))

\* transform_data._to_num(val): float(str(val).replace(",", ".")), 0.0 on any
\* exception; val is a cell of the row or the float default of row.get
ZeroOnError(x) == IF x.k = "err" THEN Num(0) ELSE x

_to_num_td(val) ==
    IF val.k \in {"num", "fnan", "finf"} THEN val
    ELSE ZeroOnError(PyFloat(ReplaceChar(PyStr(val), ",", ".")))

\* row.get(name, default) on a row of a DataFrame with columns cols
RowGet(row, cols, name, default) == IF name \in cols THEN Cell(row, name) ELSE default

Quienes == <<"propietario", "demandante", "cliente">>

TipoComField(quien) ==
    CASE quien = "propietario" -> "tipoCom_propietario"
      [] quien = "demandante" -> "tipoCom_demandante"
      [] quien = "cliente" -> "tipoCom_cliente"

ValorComField(quien) ==
    CASE quien = "propietario" -> "valorCom_propietario"
      [] quien = "demandante" -> "valorCom_demandante"
      [] quien = "cliente" -> "valorCom_cliente"

\* str(x or "").strip().lower()
TipoText(v) ==
    LET falsy == v.k = "none" \/ (v.k = "str" /\ v.s = <<>>)
    IN  Lower(Strip(IF falsy THEN <<>> ELSE PyStr(v)))

IsZero(x) == x.k = "num" /\ x.n = 0

\* what one pass of the loop adds to total
Aporte(precio, tipo, valor) ==
    IF IsZero(valor) THEN Num(0)
    ELSE IF Count(tipo, "%") > 0 THEN MulDiv100(precio, valor)
    ELSE valor

Componente(row, cols, quien) ==
    Aporte(_to_num_td(RowGet(row, cols, "precio_operacion", Num(0))),
           TipoText(RowGet(row, cols, TipoComField(quien), Txt(<<>>))),
           _to_num_td(RowGet(row, cols, ValorComField(quien), Num(0))))

calcular_comision_total(row, cols) ==
    Add(Add(Add(Num(0), Componente(row, cols, Quienes[1])),
            Componente(row, cols, Quienes[2])),
        Componente(row, cols, Quienes[3]))

\* _parse_fecha, one element: pd.to_datetime of the raw cell (a second run
\* finds the datetime the first run stored)
ToDatetimeRaw(v) ==
    IF v.k \in {"date", "NaT"} THEN v
    ELSE IF v.k = "str" THEN ParseDate(v.s, TRUE)
    ELSE NaT

_parse_fecha(row, cols) ==
    IF "fecha" \notin cols THEN NaT ELSE ToDatetimeRaw(Cell(row, "fecha"))

SinAsignar == <<"(", "S", "i", "n", " ", "a", "s", "i", "g", "n", "a", "r", ")">>

\* df_ops["vendedor"].fillna("(Sin asignar)"), or the constant column
AgenteDe(row, cols) ==
    IF "vendedor" \in cols
    THEN (IF IsNull(Cell(row, "vendedor")) THEN Txt(SinAsignar) ELSE Cell(row, "vendedor"))
    ELSE Txt(SinAsignar)

estados_validos == {Txt(<<"F", "i", "r", "m", "a", "d", "a">>), Txt(<<"P", "a", "g", "a", "d", "o">>)}

Dict0 == [n \in {} |-> NoTable]

detalle_cols ==
    <<"cod_operacion", "fecha", "agente", "tipo", "estado", "precio_operacion", "comision_total">>

KeyTd(r) == <<r["fecha"].y, r["fecha"].m, r["agente"].s>>

\* count(): the cells of the column that are not null
CountNonNull(rows, col) == Cardinality({i \in Idx(rows) : ~IsNull(Cell(rows[i], col))})

\* lines 47-57: the columns generar_resumenes writes into the caller's table
WithFecha(row, cols) == ("fecha" :> _parse_fecha(row, cols)) @@ row

\* (a total that adds to the comision_total column when the table has one)
WithTotal_acc(row1, cols) ==
    ("comision_total" :>
        Add(calcular_comision_total(row1, cols \cup {"fecha"}),
            IF "comision_total" \in cols THEN Cell(row1, "comision_total") ELSE Num(0)))
      @@ row1

WithTotal(row1, cols) ==
    ("comision_total" :> calcular_comision_total(row1, cols \cup {"fecha"})) @@ row1

MutateRow(row, cols) ==
    ("agente" :> AgenteDe(row, cols)) @@ WithTotal(WithFecha(row, cols), cols)

MutateCols(df_ops, cols) ==
    [present |-> TRUE, rows |-> [i \in Idx(df_ops.rows) |-> MutateRow(df_ops.rows[i], cols)]]

MutateOps(df_ops) == MutateCols(df_ops, Columns(df_ops))

\* lines 64-76: the monthly summary per agent
IsDated(r) == r["fecha"].k = "date"

GroupTd(dated, key) == SelectSeq(dated, LAMBDA r : KeyTd(r) = key)

TotalsTd(grp) == SumSkipNaN([i \in Idx(grp) |-> grp[i]["comision_total"]])

ResumenRows(dated, keys) ==
    [g \in Idx(keys) |->
        [anio |-> keys[g][1], mes |-> keys[g][2], agente |-> keys[g][3],
         total_comision |-> TotalsTd(GroupTd(dated, keys[g])),
         num_ops |-> CountNonNull(GroupTd(dated, keys[g]), "cod_operacion")]]

ResumenDated(dated) ==
    ResumenRows(dated, SortKeys({KeyTd(dated[i]) : i \in Idx(dated)}))

ResumenTd(validas) ==
    IF validas = <<>>
    THEN [columns |-> <<"anio", "mes", "agente", "total_comision", "num_ops">>, rows |-> <<>>]
    ELSE [columns |-> <<"anio", "mes", "agente">> \o <<"total_comision", "num_ops">>,
          rows |-> ResumenDated(SelectSeq(validas, IsDated))]

\* line 61: df_ops[df_ops["estado"].isin(estados_validos)]
EsValida(r) == Cell(r, "estado") \in estados_validos

\* lines 80-97: the detail table
Detalle(ops_validas, index, cols) ==
    [columns |-> detalle_cols,
     index |-> index,
     rows |-> [i \in Idx(ops_validas) |->
                 [c \in Range(detalle_cols) |->
                    IF c \in cols THEN Cell(ops_validas[i], c) ELSE PyNone]]]

\* lines 59-99 on the table with the written columns; a missing estado
\* column, or a missing cod_operacion column when there are valid rows, is a
\* KeyError that leaves the function
Resumir(mut, cols, ops_validas, index) ==
    IF "estado" \notin cols \/ (ops_validas # <<>> /\ "cod_operacion" \notin cols)
    THEN [out |-> Dict0, df_ops |-> mut, raised |-> TRUE]
    ELSE [out |-> [comisiones |-> ResumenTd(ops_validas),
                   operaciones_limpio |-> Detalle(ops_validas, index, cols)],
          df_ops |-> mut, raised |-> FALSE]

Filtrar(mut) ==
    Resumir(mut, Columns(mut), SelectSeq(mut.rows, EsValida),
            SortKeysInt({i \in Idx(mut.rows) : EsValida(mut.rows[i])}))

\* generar_resumenes: out is the returned dict, df_ops the caller's table after
\* the call, raised whether a KeyError left the function
generar_resumenes(dfs) ==
    IF ~dfs.operaciones.present \/ dfs.operaciones.rows = <<>>
          \/ Columns(dfs.operaciones) = {}
    THEN [out |-> Dict0, df_ops |-> dfs.operaciones, raised |-> FALSE]
    ELSE Filtrar(MutateOps(dfs.operaciones))

\* transform_data.build_all_resumenes
build_all_resumenes_td(df_inmuebles, df_demandas, df_operaciones) ==
    generar_resumenes([inmuebles |-> df_inmuebles, demandas |-> df_demandas,
                       operaciones |-> df_operaciones])

\* ------------------------------------------------------------------ inputs
Absent == [k |-> "absent", s |-> <<>>]

\* the child tag with its cell, or nothing when the element has no such child
Opt(tag, v) == IF v = Absent THEN [n \in {} |-> v] ELSE (tag :> v)

D1 == Txt(<<"0", "1", "/", "0", "3", "/", "2", "0", "2", "5">>)
D2 == Txt(<<"0", "2", "/", "0", "4", "/", "2", "0", "2", "5">>)
NoDate == Txt(<<"a", "b", "c">>)
Ana == Txt(<<"A", "n", "a">>)
BeaPadded == Txt(<<" ", "B", "e", "a">>)
Venta == Txt(<<"V", "e", "n", "t", "a">>)
Firmada == Txt(<<"F", "i", "r", "m", "a", "d", "a">>)
Pagado == Txt(<<"P", "a", "g", "a", "d", "o">>)
Pendiente == Txt(<<"P", "e", "n", "d", "i", "e", "n", "t", "e">>)

InmRows ==
    {Opt("fechaing", f) @@ Opt("agente_captador", a) @@ Opt("tipo_operacion", t)
        @@ ("precio" :> Txt(<<"1", ".", "2", "3", "4", ",", "5", "6">>)) :
        f \in {D1, D2, Absent}, a \in {Ana, BeaPadded, PyNone, Absent}, t \in {Venta, Absent}}

DemRows ==
    {Opt("fec_alta", f) @@ Opt("captador", a) @@ Opt("tipo_operacion", t) :
        f \in {D1, NoDate}, a \in {Ana, PyNone}, t \in {Venta, Txt(<<>>)}}

OpRows ==
    {Opt("fecha", f) @@ Opt("vendedor", a) @@ Opt("estado", e) @@ Opt("cod_operacion", c)
        @@ ("precio_operacion" :> Txt(<<"2", "0", "0", "0", "0", "0">>))
        @@ ("tipoCom_propietario" :> Txt(<<"2", "%">>))
        @@ ("valorCom_propietario" :> Txt(<<"2">>)) :
        f \in {D1, NoDate}, a \in {Ana, Absent}, e \in {Firmada, Pagado, Pendiente},
        c \in {Txt(<<"7">>), Absent}}

Domains == {"inmuebles", "demandas", "operaciones"}

RowsOf(dom) ==
    CASE dom = "inmuebles" -> InmRows
      [] dom = "demandas" -> DemRows
      [] dom = "operaciones" -> OpRows

\* ------------------------------------------------------------------ state
VARIABLES
    phase,      \* "load": records are being extracted; "built": transform's
                \* pipeline ran; "built_td": transform_data's pipeline ran
    dfs_raw,    \* what the loader hands over: domain -> raw table or None
    resumenes,  \* the bundle of transform.build_all_resumenes
    out_td,     \* the dict transform_data.build_all_resumenes returned
    raised,     \* whether the call under way ended in an exception
    source,     \* the ZIP or folder handed to the loader: its kind and its
                \* member names in namelist / directory-listing order
    found,      \* the member the loader resolved for each key of TARGETS
    doc,        \* the XML document handed to _iterparse_to_df: its root element
    parsed,     \* the table _iterparse_to_df returned for doc
    auth,       \* st.session_state["auth"]: "missing", "False" or "True"
    screen      \* what the last script run of the session displayed

vars ==
    <<phase, dfs_raw, resumenes, out_td, raised, source, found, doc, parsed, auth, screen>>

\* the variables of the loader, which the pipeline leaves alone
loadVars == <<source, found>>

\* the variables of the record extractor run on one document
xmlVars == <<doc, parsed>>

\* the variables of the Streamlit session besides the published resumenes
appVars == <<auth, screen>>

otherVars == <<loadVars, xmlVars, appVars>>

NoneYet == [none |-> TRUE]

TotalRows ==
    Len(dfs_raw.inmuebles.rows) + Len(dfs_raw.demandas.rows) + Len(dfs_raw.operaciones.rows)

\* no source listed and no member resolved yet
NoSource == [kind |-> "none", names |-> <<>>]

NotFound == [k |-> "none"]

Member(name) == [k |-> "member", name |-> name]

NoneFound == [key \in {"inmuebles", "demandas", "operaciones", "usuarios"} |-> NotFound]

NoDoc == [tag |-> "", text |-> PyNone, children |-> <<>>]

OtherInit ==
    /\ source = NoSource
    /\ found = NoneFound
    /\ doc = NoDoc
    /\ parsed = NoneYet
    /\ auth = "True"
    /\ screen = "home"

\* ------------------------------------------------------------------ the ingestion run
Init ==
    /\ phase = "load"
    /\ dfs_raw = [dom \in Domains |-> NoTable]
    /\ resumenes = NoneYet
    /\ out_td = NoneYet
    /\ raised = FALSE
    /\ OtherInit

\* load_*_to_dfs finds the member of a domain: _iterparse_to_df starts with rows = []
OpenMember(dom) ==
    /\ phase = "load"
    /\ ~dfs_raw[dom].present
    /\ dfs_raw' = [dfs_raw EXCEPT ![dom] = [present |-> TRUE, rows |-> <<>>]]
    /\ UNCHANGED <<phase, resumenes, out_td, raised>>
    /\ UNCHANGED otherVars

\* _iterparse_to_df meets the end of one record element: rows.append(row)
ExtractRow(dom, row) ==
    /\ phase = "load"
    /\ dfs_raw[dom].present
    /\ TotalRows < MaxRows
    /\ dfs_raw' = [dfs_raw EXCEPT ![dom].rows = Append(@, row)]
    /\ UNCHANGED <<phase, resumenes, out_td, raised>>
    /\ UNCHANGED otherVars

\* (a loader that swallows the parse error and hands over what it has read,
\* which the caller then builds and publishes)
ParseFail_partial(dom) ==
    /\ phase = "load"
    /\ raised' = FALSE
    /\ resumenes' = build_all_resumenes(dfs_raw.inmuebles, dfs_raw.demandas, dfs_raw.operaciones)
    /\ phase' = "failed"
    /\ UNCHANGED <<dfs_raw, out_td>>
    /\ UNCHANGED otherVars

\* ET.iterparse meets a defect in the member of dom, at its first event or
\* after records were read: ParseError leaves _iterparse_to_df, the loader and
\* the script run of app.py, none of which catches it; the loader's out and
\* rows (dfs_raw here) are never bound in the caller, build_all_resumenes is
\* not reached and st.session_state is not written
ParseFail(dom) ==
    /\ phase = "load"
    /\ raised' = TRUE
    /\ phase' = "failed"
    /\ UNCHANGED <<dfs_raw, resumenes, out_td>>
    /\ UNCHANGED otherVars

\* app.py: build_all_resumenes(dfs_raw.get(...), ...) of parser.transform
BuildAll ==
    /\ phase = "load"
    /\ resumenes' = build_all_resumenes(dfs_raw.inmuebles, dfs_raw.demandas, dfs_raw.operaciones)
    /\ phase' = "built"
    /\ UNCHANGED <<dfs_raw, out_td, raised>>
    /\ UNCHANGED otherVars

\* the same call on parser.transform_data, which writes into the caller's table
BuildAllTd ==
    /\ phase = "load"
    /\ LET r == build_all_resumenes_td(dfs_raw.inmuebles, dfs_raw.demandas, dfs_raw.operaciones)
       IN  /\ out_td' = r.out
           /\ raised' = r.raised
           /\ dfs_raw' = [dfs_raw EXCEPT !.operaciones = r.df_ops]
    /\ phase' = "built_td"
    /\ UNCHANGED resumenes
    /\ UNCHANGED otherVars

\* a second call of transform.build_all_resumenes with the same raw tables
Rebuild ==
    /\ phase = "built"
    /\ resumenes' = build_all_resumenes(dfs_raw.inmuebles, dfs_raw.demandas, dfs_raw.operaciones)
    /\ phase' = "rebuilt"
    /\ UNCHANGED <<dfs_raw, out_td, raised>>
    /\ UNCHANGED otherVars

\* a second call of transform_data.build_all_resumenes with the same table
\* objects, the transactions table being as the first call left it
RebuildTd ==
    /\ phase = "built_td"
    /\ LET r == build_all_resumenes_td(dfs_raw.inmuebles, dfs_raw.demandas, dfs_raw.operaciones)
       IN  /\ out_td' = r.out
           /\ raised' = r.raised
           /\ dfs_raw' = [dfs_raw EXCEPT !.operaciones = r.df_ops]
    /\ phase' = "rebuilt_td"
    /\ UNCHANGED resumenes
    /\ UNCHANGED otherVars

Next ==
    \/ \E dom \in Domains : OpenMember(dom)
    \/ \E dom \in Domains : \E row \in RowsOf(dom) : ExtractRow(dom, row)
    \/ \E dom \in Domains : ParseFail(dom)
    \/ BuildAll
    \/ BuildAllTd
    \/ Rebuild
    \/ RebuildTd

Spec == Init /\ [][Next]_vars

\* ------------------------------------------------------------------ numeric parsing alone
\* One listing with a date and a price text: the pipeline applies
\* transform._to_num to the price.
NumAlphabet == {"1", "5", ".", ",", "-", "a", " "}

NumExamples ==
    {<<"1", ".", "2", "3", "4", ",", "5", "6">>,
     <<"€", " ", "5", "0", "0">>,
     <<"1", "2", "3", "4", ".", "5", "6">>,
     <<"1", " ", "2", "3", "4", ",", "5", "6">>,
     <<"a", "b", "c">>}

NumTexts == UNION {[1..n -> NumAlphabet] : n \in 0..MaxLen} \cup NumExamples

PriceRow(t) == ("fechaing" :> D1) @@ ("precio" :> Txt(t))

InitNum ==
    /\ phase = "load"
    /\ \E t \in NumTexts :
          dfs_raw = [dom \in Domains |->
                       IF dom = "inmuebles"
                       THEN [present |-> TRUE, rows |-> <<PriceRow(t)>>]
                       ELSE NoTable]
    /\ resumenes = NoneYet
    /\ out_td = NoneYet
    /\ raised = FALSE
    /\ OtherInit

NextNum == BuildAll

SpecNum == InitNum /\ [][NextNum]_vars

\* ------------------------------------------------------------------ commissions alone
\* One transaction under test (row 1), alone or followed by an element
\* that has every commission field, so that a field row 1 lacks is either a
\* missing column or a NaN cell.
TipoComVals == {Txt(<<"3", "%">>), Txt(<<"f", "i", "j", "o">>), Absent}
ValorComVals ==
    {Txt(<<"3">>), Txt(<<"5", "0", "0">>), Txt(<<"0">>), Txt(<<"a", "b", "c">>), PyNone, Absent}
PrecioVals == {Txt(<<"1", "0", "0", "0", "0", "0">>), Absent}

ComBase ==
    ("fecha" :> D1) @@ ("vendedor" :> Ana) @@ ("estado" :> Firmada)
        @@ ("cod_operacion" :> Txt(<<"7">>))

ComRows ==
    {ComBase @@ Opt("precio_operacion", p)
        @@ Opt("tipoCom_propietario", t1) @@ Opt("valorCom_propietario", v1)
        @@ Opt("tipoCom_demandante", t2) @@ Opt("valorCom_demandante", v2)
        @@ Opt("tipoCom_cliente", t3) @@ Opt("valorCom_cliente", v3) :
        p \in PrecioVals,
        t1 \in TipoComVals, v1 \in ValorComVals,
        t2 \in TipoComVals, v2 \in ValorComVals,
        t3 \in {Absent}, v3 \in {Txt(<<"0">>), Txt(<<"5", "0", "0">>), Absent}}

FullRow ==
    ComBase @@ ("precio_operacion" :> Txt(<<"2", "0", "0", "0", "0", "0">>))
        @@ ("tipoCom_propietario" :> Txt(<<"2", "%">>)) @@ ("valorCom_propietario" :> Txt(<<"2">>))
        @@ ("tipoCom_demandante" :> Txt(<<"f", "i", "j", "o">>)) @@ ("valorCom_demandante" :> Txt(<<"1">>))
        @@ ("tipoCom_cliente" :> Txt(<<"%">>)) @@ ("valorCom_cliente" :> Txt(<<"1">>))

InitCom ==
    /\ phase = "load"
    /\ \E row \in ComRows : \E rest \in {<<>>, <<FullRow>>} :
          dfs_raw = [dom \in Domains |->
                       IF dom = "operaciones"
                       THEN [present |-> TRUE, rows |-> <<row>> \o rest]
                       ELSE NoTable]
    /\ resumenes = NoneYet
    /\ out_td = NoneYet
    /\ raised = FALSE
    /\ OtherInit

NextCom ==
    \/ BuildAll
    \/ BuildAllTd

SpecCom == InitCom /\ [][NextCom]_vars


\* ------------------------------------------------------------------ xml_loader.py: member resolution
\* The bound on the number of members a source lists.
MaxNames == 2

\* TARGETS in dict order: key, file name searched for, record tag
TARGETS ==
    <<[key |-> "inmuebles", fname_like |-> <<"I", "N", "M", "U", "E", "B", "L", "E", "S", ".", "x", "m", "l">>,
       node |-> "Inmueble"],
      [key |-> "demandas", fname_like |-> <<"D", "E", "M", "A", "N", "D", "A", "S", ".", "x", "m", "l">>,
       node |-> "Demanda"],
      [key |-> "operaciones", fname_like |-> <<"O", "P", "E", "R", "A", "C", "I", "O", "N", "E", "S", ".", "x", "m", "l">>,
       node |-> "Operacion"],
      [key |-> "usuarios", fname_like |-> <<"U", "S", "U", "A", "R", "I", "O", "S", ".", "x", "m", "l">>,
       node |-> "Usuario"]>>

TargetKeys == {TARGETS[i].key : i \in 1..Len(TARGETS)}

TargetIdx(key) == CHOOSE i \in 1..Len(TARGETS) : TARGETS[i].key = key

\* Python's `sub in s` on str
Contains(s, sub) ==
    \E i \in 0..(Len(s) - Len(sub)) : SubSeq(s, i + 1, i + Len(sub)) = sub

\* _find_member, and _find_path of load_folder_to_dfs: the first name whose
\* lower-cased form contains the lower-cased pattern
_find_member(namelist, contains) ==
    LET hits == {i \in 1..Len(namelist) : Contains(Lower(namelist[i]), Lower(contains))}
    IN  IF hits = {} THEN NotFound
        ELSE Member(namelist[CHOOSE i \in hits : \A j \in hits : i <= j])

\* p.glob("*.xml"): the names ending in .xml (case-sensitive, as on POSIX)
IsXmlName(name) ==
    Len(name) >= 4 /\ SubSeq(name, Len(name) - 3, Len(name)) = <<".", "x", "m", "l">>

\* the names the loader searches: namelist() of a ZIP, the *.xml files of a folder
Listing(src) ==
    IF src.kind = "folder" THEN SelectSeq(src.names, IsXmlName) ELSE src.names

\* the member resolved for every key of TARGETS
Resolve(namelist) ==
    [key \in TargetKeys |-> _find_member(namelist, TARGETS[TargetIdx(key)].fname_like)]


\* ------------------------------------------------------------------ loading a source
\* member names a ZIP or a folder may list
FileNames ==
    {<<"I", "N", "M", "U", "E", "B", "L", "E", "S", ".", "x", "m", "l">>,
     <<"i", "n", "m", "u", "e", "b", "l", "e", "s", "_", "2", "0", "2", "5", ".", "x", "m", "l">>,
     <<"E", "x", "p", "o", "r", "t", "_", "D", "E", "M", "A", "N", "D", "A", "S", "_", "v", "2", ".", "x", "m", "l">>,
     <<"d", "e", "m", "a", "n", "d", "a", "s", ".", "X", "M", "L">>,
     <<"O", "P", "E", "R", "A", "C", "I", "O", "N", "E", "S", ".", "x", "m", "l">>,
     <<"U", "S", "U", "A", "R", "I", "O", "S", ".", "x", "m", "l">>,
     <<"x", "/", "I", "n", "m", "u", "e", "b", "l", "e", "s", ".", "x", "m", "l">>,
     <<"n", "o", "t", "a", "s", ".", "t", "x", "t">>}

Sources ==
    {[kind |-> kind, names |-> names] :
        kind \in {"zip", "folder"},
        names \in UNION {[1..n -> FileNames] : n \in 0..MaxNames}}

\* the records of a resolved member: none, or one dated record
SampleRow(dom) ==
    CASE dom = "inmuebles" -> ("fechaing" :> D1) @@ ("agente_captador" :> Ana)
      [] dom = "demandas" -> ("fec_alta" :> D1)
      [] dom = "operaciones" -> ("fecha" :> D1) @@ ("valorCom_propietario" :> Txt(<<"2">>))

SampleRows(dom) == {<<>>, <<SampleRow(dom)>>}

\* load_zip_to_dfs / load_folder_to_dfs on well-formed members holding rows:
\* every key of TARGETS whose member is found gets its table; ValueError when
\* out is empty (for a folder also when it has no *.xml file at all)
LoadOut(res, rows) ==
    [found |-> res,
     raised |-> \A key \in TargetKeys : res[key] = NotFound,
     dfs |-> [dom \in Domains |->
                IF res[dom] = NotFound THEN NoTable
                ELSE [present |-> TRUE, rows |-> rows[dom]]]]

load_to_dfs(src, rows) == LoadOut(Resolve(Listing(src)), rows)

InitLoad ==
    /\ phase = "listing"
    /\ dfs_raw = [dom \in Domains |-> NoTable]
    /\ resumenes = NoneYet
    /\ out_td = NoneYet
    /\ raised = FALSE
    /\ source \in Sources
    /\ found = NoneFound
    /\ doc = NoDoc
    /\ parsed = NoneYet
    /\ auth = "True"
    /\ screen = "home"

\* one load of the source
LoadSource(rows) ==
    /\ phase = "listing"
    /\ found' = load_to_dfs(source, rows).found
    /\ raised' = load_to_dfs(source, rows).raised
    /\ IF load_to_dfs(source, rows).raised
       THEN phase' = "rejected" /\ dfs_raw' = dfs_raw
       ELSE phase' = "load" /\ dfs_raw' = load_to_dfs(source, rows).dfs
    /\ UNCHANGED <<resumenes, out_td, source>>
    /\ UNCHANGED <<xmlVars, appVars>>

RowChoices ==
    {rows \in [Domains -> UNION {SampleRows(dom) : dom \in Domains}] :
        \A dom \in Domains : rows[dom] \in SampleRows(dom)}

NextLoad ==
    \/ \E rows \in RowChoices : LoadSource(rows)
    \/ BuildAll

SpecLoad == InitLoad /\ [][NextLoad]_vars


\* ------------------------------------------------------------------ xml_loader.py: record extraction
\* An element is its tag, its text (None, or the characters before its first
\* child) and its child elements in order.
Elem(tag, text, children) == [tag |-> tag, text |-> text, children |-> children]

\* elem.clear(): no children, no text
Cleared(e) == Elem(e.tag, PyNone, <<>>)

\* child.text.strip() if isinstance(child.text, str) else child.text
FieldValue(child) == IF child.text.k = "str" THEN Txt(Strip(child.text.s)) ELSE child.text

\* {child.tag: ... for child in list(elem)}: of two children with one tag the
\* later one stays
RowOfElem(kids) ==
    [t \in {kids[i].tag : i \in 1..Len(kids)} |->
        FieldValue(kids[CHOOSE i \in 1..Len(kids) :
                          /\ kids[i].tag = t
                          /\ \A j \in 1..Len(kids) : kids[j].tag = t => j <= i])]

\* the "end" event of element e, whose children kids have had theirs: a row
\* when the tag is the target's, and then e is cleared
EndEvent(e, node_tag, ch) ==
    IF e.tag = node_tag
    THEN [rows |-> ch.rows \o <<RowOfElem(ch.elems)>>, elem |-> Cleared(e)]
    ELSE [rows |-> ch.rows, elem |-> Elem(e.tag, e.text, ch.elems)]

JoinEvents(h, t) == [rows |-> h.rows \o t.rows, elems |-> <<h.elem>> \o t.elems]

\* ET.iterparse(fobj, events=("end",)): every element is met at its end tag,
\* after all its descendants
RECURSIVE IterElem(_, _), IterKids(_, _)
IterElem(e, node_tag) == EndEvent(e, node_tag, IterKids(e.children, node_tag))

IterKids(kids, node_tag) ==
    IF kids = <<>> THEN [rows |-> <<>>, elems |-> <<>>]
    ELSE JoinEvents(IterElem(Head(kids), node_tag), IterKids(Tail(kids), node_tag))

_iterparse_to_df(root, node_tag) ==
    [present |-> TRUE, rows |-> IterElem(root, node_tag).rows]

\* ------------------------------------------------------------------ extraction of one document
\* The bound on the children of a record element and on the records of a document.
MaxKids == 2

FieldTexts ==
    {PyNone, Txt(<<" ">>), Txt(<<" ", "A", "n", "a", " ">>), Txt(<<"B", "e", "a">>)}

Leaves ==
    {Elem("agente_captador", t, <<>>) : t \in FieldTexts}
        \cup {Elem("ref", Txt(<<"7">>), <<>>)}

\* a field that has a child of its own, and records nested in a record
Nested ==
    {Elem("precio", Txt(<<"5">>), <<Elem("ref", Txt(<<"9">>), <<>>)>>),
     Elem("Inmueble", PyNone, <<Elem("ref", Txt(<<"8">>), <<>>)>>),
     Elem("Inmueble", Txt(<<"x">>), <<>>)}

Records ==
    {Elem("Inmueble", PyNone, kids) :
        kids \in UNION {[1..n -> Leaves \cup Nested] : n \in 0..MaxKids}}

\* a record directly under the root, or one level deeper
Tops ==
    Records \cup {Elem("grupo", PyNone, <<Elem("Inmueble", PyNone, <<l>>)>>) : l \in Leaves}

Docs == {Elem("Inmuebles", PyNone, tops) : tops \in UNION {[1..n -> Tops] : n \in 1..MaxKids}}

InitXml ==
    /\ phase = "xml"
    /\ dfs_raw = [dom \in Domains |-> NoTable]
    /\ resumenes = NoneYet
    /\ out_td = NoneYet
    /\ raised = FALSE
    /\ source = NoSource
    /\ found = NoneFound
    /\ doc \in Docs
    /\ parsed = NoneYet
    /\ auth = "True"
    /\ screen = "home"

\* _iterparse_to_df(f, "Inmueble") on the document
Iterparse ==
    /\ phase = "xml"
    /\ parsed' = _iterparse_to_df(doc, "Inmueble")
    /\ phase' = "parsed"
    /\ UNCHANGED <<dfs_raw, resumenes, out_td, raised, doc>>
    /\ UNCHANGED <<loadVars, appVars>>

NextXml == Iterparse

SpecXml == InitXml /\ [][NextXml]_vars


\* ------------------------------------------------------------------ app.py: the session
\* DASHBOARD_PASSWORD of the deployment, and what a visitor may type
PASSWORD == "secreto"

Typed == {"secreto", "otra", ""}

\* the sources a session meets: none, or a folder or ZIP listing at most one name
AppSources == {NoSource} \cup {src \in Sources : Len(src.names) <= 1}

\* the members of a source hold one record each
OneRow == [dom \in Domains |-> <<SampleRow(dom)>>]

\* lines 17-30: what the gate leaves in st.session_state["auth"]
GateAuth(pwd, click) == IF click /\ pwd = PASSWORD THEN "True" ELSE "False"

GateScreen(pwd, click) == IF click /\ pwd # PASSWORD THEN "gate_error" ELSE "gate"

\* lines 70-97: a source is loaded only while resumenes is None: the datos/
\* folder when it has an .xml file, else the ZIP put into the uploader
Loads(src) ==
    \/ src.kind = "folder" /\ Listing(src) # <<>>
    \/ src.kind = "zip"

\* the bundle app.py builds from a source whose load returns
BundleOf(src) ==
    build_all_resumenes(load_to_dfs(src, OneRow).dfs.inmuebles,
                        load_to_dfs(src, OneRow).dfs.demandas,
                        load_to_dfs(src, OneRow).dfs.operaciones)

\* lines 63-103 for an authenticated session: the ValueError of a load ends
\* the script run before anything is published
Portada ==
    IF resumenes = NoneYet /\ Loads(source)
    THEN IF load_to_dfs(source, OneRow).raised
         THEN resumenes' = resumenes /\ raised' = TRUE /\ screen' = "exception"
         ELSE resumenes' = BundleOf(source) /\ raised' = FALSE /\ screen' = "home_ok"
    ELSE /\ resumenes' = resumenes
         /\ raised' = FALSE
         /\ screen' = IF resumenes = NoneYet THEN "home_wait" ELSE "home_ok"

\* (a gate without its st.stop(): the rest of the script runs for anyone)
RunApp_nostop(pwd, click) ==
    /\ auth' = IF auth = "True" THEN auth ELSE GateAuth(pwd, click)
    /\ Portada
    /\ phase' = "ran"
    /\ UNCHANGED <<dfs_raw, out_td, source>>
    /\ UNCHANGED <<found, xmlVars>>

\* one script run of app.py, the visitor having typed pwd and pressed Entrar
\* or not: the gate ends the run of a session that is not authenticated
\* (a right password sets auth and asks for the rerun, which is the next run)
RunApp(pwd, click) ==
    /\ IF auth # "True"
       THEN /\ auth' = GateAuth(pwd, click)
            /\ screen' = GateScreen(pwd, click)
            /\ UNCHANGED <<resumenes, raised>>
       ELSE /\ auth' = auth
            /\ Portada
    /\ phase' = "ran"
    /\ UNCHANGED <<dfs_raw, out_td, source>>
    /\ UNCHANGED <<found, xmlVars>>

PageTable(page) ==
    CASE page = 1 -> "captaciones" [] page = 2 -> "demandas" [] page = 3 -> "comisiones"

\* one script run of pages/<page>_*.py: the warning and st.stop() unless
\* resumenes holds the page's table
VisitPage(page) ==
    /\ screen' = IF resumenes = NoneYet \/ PageTable(page) \notin DOMAIN resumenes
                 THEN "page_warning" ELSE "page_data"
    /\ phase' = "page"
    /\ UNCHANGED <<dfs_raw, resumenes, out_td, raised, source, auth>>
    /\ UNCHANGED <<found, xmlVars>>

\* the datos/ folder changes, or the visitor has another ZIP to upload
NewSource(src) ==
    /\ src # source
    /\ source' = src
    /\ phase' = "idle"
    /\ UNCHANGED <<dfs_raw, resumenes, out_td, raised, auth, screen>>
    /\ UNCHANGED <<found, xmlVars>>

InitApp ==
    /\ phase = "idle"
    /\ dfs_raw = [dom \in Domains |-> NoTable]
    /\ resumenes = NoneYet
    /\ out_td = NoneYet
    /\ raised = FALSE
    /\ source \in AppSources
    /\ found = NoneFound
    /\ doc = NoDoc
    /\ parsed = NoneYet
    /\ auth = "missing"
    /\ screen = "nothing"

NextApp ==
    \/ \E pwd \in Typed : \E click \in BOOLEAN : RunApp(pwd, click)
    \/ \E page \in 1..3 : VisitPage(page)
    \/ \E src \in AppSources : NewSource(src)

SpecApp == InitApp /\ [][NextApp]_vars

\* ================================================================== claims
\* what the claims speak of, read off the raw input independently of the code
RawOps == dfs_raw.operaciones.rows
CleanOps == resumenes.operaciones_limpio.rows

\* the calendar date a raw date text of the inputs stands for, day first
IsDateText(v) == v \in {D1, D2}
DateOf(v) == IF v = D1 THEN Date(2025, 3, 1) ELSE Date(2025, 4, 2)

EstadoValido(row) == "estado" \in DOMAIN row /\ row["estado"] \in {Firmada, Pagado}

\* C1 (as claimed, for the rows whose date parses): after the pipeline app.py
\* calls, a raw transaction row is in operaciones_limpio iff its estado is
\* exactly Firmada or Pagado, and every row of the comisiones summary comes
\* from such rows only.
C1_StatusFilter ==
    phase = "built" =>
        /\ \A i \in Idx(RawOps) :
              IsDateText(Cell(RawOps[i], "fecha")) =>
                 ((\E j \in Idx(CleanOps) : CleanOps[j].idx = i) <=> EstadoValido(RawOps[i]))
        /\ \A g \in Idx(resumenes.comisiones.rows) :
              \A j \in Idx(CleanOps) :
                 Key3(CleanOps[j]) = Key3(resumenes.comisiones.rows[g])
                    => EstadoValido(RawOps[CleanOps[j].idx])

\* a cell holding a plain numeral, and the number it writes
IsNumeral(v) == v.k = "str" /\ v.s # <<>> /\ AllIn(v.s, Digits)
NumeralOr0(v) == IF IsNumeral(v) THEN Num(DigitsVal(v.s)) ELSE Num(0)

\* the commission kind of a party as the rule reads it: trimmed, lower case
KindOf(row, quien) ==
    LET v == Cell(row, TipoComField(quien))
    IN  IF v.k = "str" THEN Lower(Strip(v.s)) ELSE <<>>

\* the rule of the commission contract for one party: nothing for a value of
\* 0 (or one that is no number), price * value / 100 for a kind with a
\* percent sign, the value itself otherwise
RuleAporte(row, quien) ==
    LET valor == NumeralOr0(Cell(row, ValorComField(quien)))
        precio == NumeralOr0(Cell(row, "precio_operacion"))
    IN  IF valor.n = 0 THEN Num(0)
        ELSE IF \E i \in 1..Len(KindOf(row, quien)) : KindOf(row, quien)[i] = "%"
             THEN Norm(precio.n * valor.n, 100)
        ELSE valor

RuleTotal(row) ==
    LET a == RuleAporte(row, "propietario")
        b == RuleAporte(row, "demandante")
        c == RuleAporte(row, "cliente")
    IN  Norm(a.n * (100 \div a.d) + b.n * (100 \div b.d) + c.n * (100 \div c.d), 100)

AllNumerals(row) ==
    /\ IsNumeral(Cell(row, "precio_operacion"))
    /\ \A q \in Range(Quienes) : IsNumeral(Cell(row, ValorComField(q)))

\* C2 (as claimed): the commission_total of every transaction row the pipeline
\* cleans is the sum over the three parties of 0 for a value of 0, of
\* price * value / 100 for a kind containing a percent sign, and of the value
\* itself otherwise (stated for rows whose price and values are plain numerals).
C2_CommissionRule ==
    phase = "built" =>
        \A j \in Idx(CleanOps) :
            AllNumerals(RawOps[CleanOps[j].idx])
               => CleanOps[j].comision_total = RuleTotal(RawOps[CleanOps[j].idx])

\* C3 (as claimed): calcular_comision_total never fails and never yields a
\* non-number; a component whose value is missing from the row, null/NaN,
\* empty or unparseable adds exactly zero and leaves the other components'
\* contributions as the rule gives them.
C3_MissingIsZero ==
    phase = "built_td" =>
        /\ ~raised
        /\ \A j \in Idx(out_td.operaciones_limpio.rows) :
              LET total == out_td.operaciones_limpio.rows[j]["comision_total"]
                  row == RawOps[out_td.operaciones_limpio.index[j]]
              IN  total.k = "num" /\ total = RuleTotal(row)

SixTables ==
    {"captaciones", "demandas", "comisiones",
     "inmuebles_limpio", "demandas_limpio", "operaciones_limpio"}

C5_Schema ==
    phase = "built" =>
        /\ Range(resumenes.captaciones.columns)
              = {"anio", "mes", "agente", "tipo", "num_inmuebles"}
        /\ Range(resumenes.demandas.columns)
              = {"anio", "mes", "agente", "tipo", "num_demandas"}
        /\ \E total \in {"total_comision", "comision_total"} :
              Range(resumenes.comisiones.columns)
                 = {"anio", "mes", "agente", total, "num_ops"}

\* the rows of a cleaned table carry the date their raw row writes, with its
\* year and month, and no raw row without a date text is in the table
DateDrop(raw, clean, field) ==
    /\ \A j \in Idx(clean) :
          /\ clean[j].idx \in Idx(raw)
          /\ IsDateText(Cell(raw[clean[j].idx], field))
          /\ clean[j].fecha = DateOf(Cell(raw[clean[j].idx], field))
          /\ clean[j].anio = DateOf(Cell(raw[clean[j].idx], field)).y
          /\ clean[j].mes = DateOf(Cell(raw[clean[j].idx], field)).m
          /\ clean[j].mes \in 1..12
    /\ \A i \in Idx(raw) :
          ~IsDateText(Cell(raw[i], field)) => \A j \in Idx(clean) : clean[j].idx # i

NullTexts ==
    {<<>>, <<"N", "o", "n", "e">>, <<"n", "o", "n", "e">>, <<"n", "u", "l", "l">>,
     <<"N", "a", "N">>, <<"n", "a", "n">>}

Nullish(v) == v.k \in {"nan", "none"} \/ (v.k = "str" /\ Strip(v.s) \in NullTexts)

Defaulted(v, default) == IF Nullish(v) THEN default ELSE Strip(v.s)

Defaulting(raw, clean, fecha, agente, tipo) ==
    \A i \in Idx(raw) :
        IsDateText(Cell(raw[i], fecha)) =>
            \E j \in Idx(clean) :
                /\ clean[j].idx = i
                /\ clean[j].agente = Defaulted(Cell(raw[i], agente), Desconocido)
                /\ clean[j].tipo = Defaulted(Cell(raw[i], tipo), SinEspecificar)

\* C7 (as claimed): every raw row with a parseable date has its cleaned row,
\* whose agent is Desconocido when the raw agent is absent from the element,
\* empty, blank or a text for null/none, and the trimmed raw text otherwise;
\* likewise the type with Sin especificar.
C7_Defaulting ==
    phase = "built" =>
        /\ Defaulting(dfs_raw.inmuebles.rows, resumenes.inmuebles_limpio.rows,
                      "fechaing", "agente_captador", "tipo_operacion")
        /\ Defaulting(dfs_raw.demandas.rows, resumenes.demandas_limpio.rows,
                      "fec_alta", "captador", "tipo_operacion")
        /\ Defaulting(dfs_raw.operaciones.rows, resumenes.operaciones_limpio.rows,
                      "fecha", "vendedor", "tipo")

\* the price text of the numeric-parsing specification, stripped of every
\* character that is not a digit, '.', ',' or '-'
PriceText == Keep(dfs_raw.inmuebles.rows[1]["precio"].s, Digits \cup {",", ".", "-"})
PriceParsed == resumenes.inmuebles_limpio.rows[1].precio

Unsigned(c) == IF c # <<>> /\ Head(c) = "-" THEN Tail(c) ELSE c
SignOf(c) == IF c # <<>> /\ Head(c) = "-" THEN -1 ELSE 1

\* digits in groups of three separated by '.', the first group of one to three
Grouped(ip) ==
    /\ ip # <<>>
    /\ ip[1] \in Digits
    /\ \A i \in 1..Len(ip) :
          IF (Len(ip) - i) % 4 = 3 THEN ip[i] = "." ELSE ip[i] \in Digits

\* Spanish format: '.' for thousands, ',' for decimals
IsSpanish(c) ==
    LET u == Unsigned(c)
        p == FirstIdx(u, ",")
        ip == SubSeq(u, 1, p - 1)
        fp == SubSeq(u, p + 1, Len(u))
    IN  /\ Count(u, ",") <= 1
        /\ Count(u, ",") = 1 => (fp # <<>> /\ AllIn(fp, Digits))
        /\ Grouped(ip)

SpanishValue(c) ==
    LET u == Unsigned(c)
        p == FirstIdx(u, ",")
        ip == Keep(SubSeq(u, 1, p - 1), Digits)
        fp == SubSeq(u, p + 1, Len(u))
    IN  Norm(SignOf(c) * (DigitsVal(ip) * Pow10(Len(fp)) + DigitsVal(fp)), Pow10(Len(fp)))

\* already-clean numeric text: digits with a decimal point, no comma
IsCleanNumeric(c) == Count(c, ",") = 0 /\ IsDecimal(Unsigned(c))

CleanValue(c) == DecimalValue(Unsigned(c), SignOf(c))

\* C8 (as claimed): once the other characters are stripped, a price text in
\* Spanish format parses to its value, already-clean numeric text such as
\* 1234.56 parses to that same value, and text without a number parses to 0.
C8_LocaleNumber ==
    phase = "built" =>
        /\ IsSpanish(PriceText) => PriceParsed = SpanishValue(PriceText)
        /\ (IsCleanNumeric(PriceText) /\ ~IsSpanish(PriceText))
              => PriceParsed = CleanValue(PriceText)
        /\ Keep(PriceText, Digits) = <<>> => PriceParsed = Num(0)

RECURSIVE SumSeq(_)
SumSeq(q) == IF q = <<>> THEN 0 ELSE Head(q) + SumSeq(Tail(q))

RowsOfMonth(clean, ym) ==
    Cardinality({j \in Idx(clean) : <<clean[j].anio, clean[j].mes>> = ym})

Months(clean, resumen) ==
    {<<clean[j].anio, clean[j].mes>> : j \in Idx(clean)}
        \cup {<<resumen[g].anio, resumen[g].mes>> : g \in Idx(resumen)}

\* C9: for every (year, month) the counts of the listing summary rows of
\* that month add up to the number of cleaned listing rows of that month, so
\* the counts of the whole summary add up to the number of cleaned rows; the
\* same for demands.
C9_CountConservation ==
    phase = "built" =>
        LET inm == resumenes.inmuebles_limpio.rows
            cap == resumenes.captaciones.rows
            dem == resumenes.demandas_limpio.rows
            rdm == resumenes.demandas.rows
        IN  /\ \A ym \in Months(inm, cap) :
                  SumSeq([g \in Idx(cap) |->
                            IF <<cap[g].anio, cap[g].mes>> = ym
                            THEN cap[g].num_inmuebles ELSE 0]) = RowsOfMonth(inm, ym)
            /\ SumSeq([g \in Idx(cap) |-> cap[g].num_inmuebles]) = Len(inm)
            /\ \A ym \in Months(dem, rdm) :
                  SumSeq([g \in Idx(rdm) |->
                            IF <<rdm[g].anio, rdm[g].mes>> = ym
                            THEN rdm[g].num_demandas ELSE 0]) = RowsOfMonth(dem, ym)
            /\ SumSeq([g \in Idx(rdm) |-> rdm[g].num_demandas]) = Len(dem)

\* two listings of one month were cleaned, in one group or in two
C9_Witness ==
    /\ phase = "built"
    /\ Len(resumenes.inmuebles_limpio.rows) = 2
    /\ resumenes.inmuebles_limpio.rows[1].mes = resumenes.inmuebles_limpio.rows[2].mes
    /\ Len(resumenes.captaciones.rows) = 1
    /\ resumenes.captaciones.rows[1].num_inmuebles = 2

\* the commission totals of a sequence of rows, added up
RECURSIVE SumNums(_)
SumNums(q) == IF q = <<>> THEN Num(0) ELSE Add(Head(q), SumNums(Tail(q)))

\* the summary has one row for each key of the table, with the sum of the
\* commissions and the number of the rows of that key
Aggregated(resumen, keys, totals, total) ==
    /\ {<<resumen[g].anio, resumen[g].mes, resumen[g].agente>> : g \in Idx(resumen)}
          = Range(keys)
    /\ \A g \in Idx(resumen) :
          LET mine == {j \in Idx(keys) :
                          keys[j] = <<resumen[g].anio, resumen[g].mes, resumen[g].agente>>}
          IN  /\ \A h \in Idx(resumen) :
                    <<resumen[h].anio, resumen[h].mes, resumen[h].agente>>
                        = <<resumen[g].anio, resumen[g].mes, resumen[g].agente>> => h = g
              /\ resumen[g][total]
                    = SumNums([j \in Idx(SortKeysInt(mine)) |-> totals[SortKeysInt(mine)[j]]])
              /\ "num_ops" \in DOMAIN resumen[g]
              /\ resumen[g]["num_ops"] = Cardinality(mine)

\* C10 (as claimed): the transaction summary has exactly one row for each
\* (year, month, agent) of the cleaned transaction table, with the sum of
\* commission_total and the number of the rows of that key, a row counting
\* whatever its cod_operacion.
C10_Aggregation ==
    phase = "built" =>
        Aggregated(resumenes.comisiones.rows,
                   [j \in Idx(CleanOps) |-> Key3(CleanOps[j])],
                   [j \in Idx(CleanOps) |-> CleanOps[j].comision_total],
                   "comision_total")

\* ------------------------------------------------------------------ C11
\* the order of two texts by their first differing character, a proper prefix
\* coming first
TextBefore(a, b) ==
    \/ Len(a) < Len(b) /\ SubSeq(b, 1, Len(a)) = a
    \/ \E p \in 1..Min(Len(a), Len(b)) :
          /\ SubSeq(a, 1, p - 1) = SubSeq(b, 1, p - 1)
          /\ Ord(a[p]) < Ord(b[p])

\* the order of two grouping keys by their first differing component: year
\* and month as numbers, agent and type as texts
KeyBefore(a, b) ==
    \E p \in 1..Len(a) :
        /\ \A q \in 1..(p - 1) : a[q] = b[q]
        /\ IF p <= 2 THEN a[p] < b[p] ELSE TextBefore(a[p], b[p])

Ascending(rows, Key(_)) ==
    \A g \in 1..(Len(rows) - 1) : KeyBefore(Key(rows[g]), Key(rows[g + 1]))

\* C11: every summary table of the pipeline lists its rows in strictly
\* ascending lexicographic order of the grouping key, (year, month, agent,
\* type) for listings and demands and (year, month, agent) for transactions,
\* so that no key is in two rows; the summary of transform_data likewise.
C11_SummaryOrder ==
    /\ phase = "built" =>
          /\ Ascending(resumenes.captaciones.rows, Key4)
          /\ Ascending(resumenes.demandas.rows, Key4)
          /\ Ascending(resumenes.comisiones.rows, Key3)
          /\ \A g, h \in Idx(resumenes.captaciones.rows) :
                Key4(resumenes.captaciones.rows[g]) = Key4(resumenes.captaciones.rows[h])
                   => g = h
    /\ phase = "built_td" /\ "comisiones" \in DOMAIN out_td =>
          Ascending(out_td.comisiones.rows, Key3)

\* two listings extracted in descending key order (April before March) are
\* summarised in two rows, March first
C11_Witness ==
    /\ phase = "built"
    /\ Len(resumenes.captaciones.rows) = 2
    /\ resumenes.inmuebles_limpio.rows[1].mes = 4
    /\ resumenes.inmuebles_limpio.rows[2].mes = 3
    /\ resumenes.captaciones.rows[1].mes = 3

\* ------------------------------------------------------------------ C12, C13
\* the name of the domain a key of TARGETS stands for
DomainName(key) ==
    CASE key = "inmuebles" -> <<"I", "N", "M", "U", "E", "B", "L", "E", "S">>
      [] key = "demandas" -> <<"D", "E", "M", "A", "N", "D", "A", "S">>
      [] key = "operaciones" -> <<"O", "P", "E", "R", "A", "C", "I", "O", "N", "E", "S">>
      [] key = "usuarios" -> <<"U", "S", "U", "A", "R", "I", "O", "S">>

\* the first listed name that contains the domain's name in any case
FirstNamed(namelist, key) ==
    LET hits == {i \in 1..Len(namelist) : Contains(Lower(namelist[i]), Lower(DomainName(key)))}
    IN  IF hits = {} THEN NotFound
        ELSE Member(namelist[CHOOSE i \in hits : \A j \in hits : i <= j])

\* C12 (as claimed): for each domain the loader selects the first name, in
\* listing order, that contains the domain's name as a case-insensitive
\* substring, and leaves a domain out only when no name contains it.
C12_MemberResolution ==
    phase \in {"load", "rejected", "built"} =>
        \A key \in TargetKeys : found[key] = FirstNamed(Listing(source), key)

\* C13 (as claimed): the load is rejected exactly when the source has a file
\* for none of the three domains; otherwise it succeeds and returns the
\* tables of the domains the source has, and only those.
C13_SourceNotFound ==
    phase \in {"load", "rejected", "built"} =>
        /\ raised <=> \A dom \in Domains : found[dom] = NotFound
        /\ ~raised => \A dom \in Domains : dfs_raw[dom].present <=> found[dom] # NotFound

\* ------------------------------------------------------------------ C14
\* C14: when a member is not well-formed, wherever the defect is, the load
\* raises and hands over no table, not even of the domains read before, and
\* the published result stays what it was before the run (nothing).
C14_ParseFailure ==
    phase = "failed" =>
        /\ raised
        /\ resumenes = NoneYet
        /\ out_td = NoneYet

\* the defect came after one domain was read whole and a record of another
\* was read
C14_Witness ==
    /\ phase = "failed"
    /\ raised
    /\ Len(dfs_raw.inmuebles.rows) = 1
    /\ Len(dfs_raw.operaciones.rows) = 1

\* ------------------------------------------------------------------ C15
\* the elements of a document in document order: an element before its
\* descendants, siblings left to right
RECURSIVE DocOrder(_), DocOrderAll(_)
DocOrder(e) == <<e>> \o DocOrderAll(e.children)

DocOrderAll(kids) ==
    IF kids = <<>> THEN <<>> ELSE DocOrder(Head(kids)) \o DocOrderAll(Tail(kids))

IsRecord(e) == e.tag = "Inmueble"

Occurrences(root) == SelectSeq(DocOrder(root), IsRecord)

\* the trimmed text of a child, null when there is none or only whitespace
TrimmedOrNull(child) ==
    IF child.text.k = "str" /\ Strip(child.text.s) # <<>>
    THEN Txt(Strip(child.text.s)) ELSE PyNone

\* row is the record of element e: a field for each direct child, by tag
IsRowOf(row, e) ==
    /\ DOMAIN row = {e.children[i].tag : i \in 1..Len(e.children)}
    /\ \A t \in DOMAIN row :
          \E i \in 1..Len(e.children) :
              e.children[i].tag = t /\ row[t] = TrimmedOrNull(e.children[i])

\* C15 (as claimed): _iterparse_to_df yields one row per occurrence of the
\* tag at any depth, nested occurrences too, in document order, each row
\* mapping the tags of the element's direct children to their trimmed text,
\* or to null for a child without text or with whitespace only.
C15_RecordExtraction ==
    phase = "parsed" =>
        /\ Len(parsed.rows) = Len(Occurrences(doc))
        /\ \A i \in 1..Len(parsed.rows) : IsRowOf(parsed.rows[i], Occurrences(doc)[i])

\* ------------------------------------------------------------------ C16, C17
\* C16: a second run of the pipeline on the same raw input, the very table
\* objects the first run was given included, returns the same summary and
\* cleaned tables, rows in the same order (and fails where the first failed).
C16_Idempotence ==
    [][/\ phase = "built" /\ phase' = "rebuilt" => resumenes' = resumenes
       /\ phase = "built_td" /\ phase' = "rebuilt_td" =>
             out_td' = out_td /\ raised' = raised]_vars

\* the second run of transform_data was given the table the first run had
\* written its columns into, and summarised a transaction
C16_Witness ==
    /\ phase = "rebuilt_td"
    /\ ~raised
    /\ "comisiones" \in DOMAIN out_td
    /\ Len(out_td.comisiones.rows) = 1
    /\ "comision_total" \in DOMAIN dfs_raw.operaciones.rows[1]

\* C17 (as claimed): a run of the pipeline leaves the raw tables it is given
\* as they were, columns, rows and values.
C17_InputsImmutable ==
    [][phase = "load" /\ phase' \in {"built", "built_td"} => dfs_raw' = dfs_raw]_vars

\* ------------------------------------------------------------------ C18, C19
\* C18 (as claimed): after a script run of an authenticated session whose
\* source loads, the published result is the complete bundle of that source,
\* also when the session already held a result; and the published result is
\* always absent or a complete bundle.
C18_ReplaceOnReingestion ==
    /\ resumenes = NoneYet \/ DOMAIN resumenes = SixTables
    /\ (phase = "ran" /\ auth = "True" /\ screen = "home_ok" /\ Loads(source)
           /\ ~load_to_dfs(source, OneRow).raised)
          => resumenes = BundleOf(source)

\* C19: resumenes is set only in an authenticated session; auth, once true,
\* stays true; a wrong password leaves auth not true and resumenes as it
\* was; and a page shows data to no session that is not authenticated.
C19_NoDataBeforeAuth ==
    /\ [](resumenes # NoneYet => auth = "True")
    /\ [](screen = "page_data" => auth = "True")
    /\ [][auth = "True" => auth' = "True"]_vars
    /\ [][screen' = "gate_error" => auth' # "True" /\ resumenes' = resumenes]_vars

\* an authenticated session has published a bundle and a page has shown it
C19_Witness ==
    /\ auth = "True"
    /\ resumenes # NoneYet
    /\ screen = "page_data"

====
